---- MODULE Spec2Model ----
(***************************************************************************)
(* Hedge card of the kalshi-edge-detection frontend: the local recompute   *)
(* of allocations / scenarios / summary (recalcLocal), the quantity        *)
(* override handlers, fetch effect and exit-threshold controls of          *)
(* HedgeGroupCard, the budget and fee fields of BudgetInput, the Monte     *)
(* Carlo histogram of ReturnDistributionChart, and the auto-refresh of     *)
(* useMarkets.                                                             *)
(*                                                                         *)
(* Units.  Prices are integer cents (0..100).  Dollar amounts are kept as  *)
(* integers in mills (1/1000 dollar), so that the default per-contract fee *)
(* of $0.011 is the integer 11 and rounding to cents is not the identity.  *)
(* Quotients (probabilities, ratios, expected values) are exact rationals  *)
(* [n, d]; d = 0 encodes the IEEE specials: n = 1 Infinity, n = -1         *)
(* -Infinity, n = 0 NaN.  Floating-point representation error is not       *)
(* modelled: arithmetic is exact.                                          *)
(***************************************************************************)
EXTENDS Integers, Sequences, FiniteSets, TLC

VARIABLES
    group,             \* prop `group` of the card
    budget,            \* prop `budget` (mills)
    fee,               \* prop `fee` (mills per contract)
    selected,          \* state `selected`: set of tickers
    baseResult,        \* state `baseResult`: NULL or a HedgeResult
    loading,           \* state `loading`
    pending,           \* the live (not cancelled) request of the fetch effect, or NULL
    qtyOverrides,      \* state `qtyOverrides`: function ticker -> count
    result,            \* the `result` memo: NULL or the displayed HedgeResult
    editingQtyTicker,  \* state `editingQtyTicker`: NoTicker or a ticker
    editingQtyValue,   \* state `editingQtyValue`: text (sequence of characters)
    crashed,           \* TRUE once a render of the card has thrown
    chart,             \* state of the ReturnDistributionChart memo computation
    exitThreshold,     \* prop `exitThreshold`, owned by the parent (a fraction)
    localExitThreshold,\* state `localExitThreshold`
    exitInputValue,    \* state `exitInputValue`: text
    exitDebounce,      \* exitDebounceRef.current (ref) and the timers not yet fired
    exitRequests,      \* calculate requests of commitExitThreshold still in flight
    exitLoading,       \* state `exitLoading`
    budgetStr,         \* BudgetInput state `budgetStr`: text
    feeStr,            \* BudgetInput state `feeStr`: text
    stale,             \* requests of cleaned-up fetch-effect runs still in flight
    markets            \* state of the useMarkets hook

\* the exit-threshold controls of the card
exitVars == <<exitThreshold, localExitThreshold, exitInputValue, exitDebounce,
              exitRequests, exitLoading>>

\* the text fields of BudgetInput
inputVars == <<budgetStr, feeStr>>

vars == <<group, budget, fee, selected, baseResult, loading, pending,
          qtyOverrides, result, editingQtyTicker, editingQtyValue, crashed, chart,
          exitVars, inputVars, stale, markets>>

\* everything but the useMarkets hook
hedgeVars == <<group, budget, fee, selected, baseResult, loading, pending,
               qtyOverrides, result, editingQtyTicker, editingQtyValue, crashed, chart,
               exitVars, inputVars, stale>>

cardVars == <<group, budget, fee, selected, baseResult, loading, pending,
              qtyOverrides, result, editingQtyTicker, editingQtyValue, crashed,
              exitVars, inputVars, stale, markets>>

----------------------------------------------------------------------------
(* Bounds of the model *)

MaxBuckets == 2

\* requests of cleaned-up fetch-effect runs in flight at the same time
MaxStale == 1

\* yes price (cents) of the bucket at each position when it trades; the first
\* two buckets may also sit at yes price 0 (noPrice 100, not viable)
NominalYes == <<45, 60, 50, 15>>
YesPriceChoices(i) == IF i <= 2 THEN {0, NominalYes[i]} ELSE {NominalYes[i]}

\* budgets (mills) and per-contract fees (mills) of the dashboard
Budgets == {0, 2000}
Fees == {11}

NULL == [null |-> TRUE]

\* useMarkets before the dashboard that calls it is mounted
Unmounted == [mounted |-> FALSE]

\* the null of a ticker-valued state (tickers are strings)
NoTicker == "(null)"

----------------------------------------------------------------------------
(* Exact arithmetic *)

Abs(x) == IF x < 0 THEN -x ELSE x

Sign(x) == IF x > 0 THEN 1 ELSE IF x < 0 THEN -1 ELSE 0

RECURSIVE Gcd(_, _)
Gcd(a, b) == IF b = 0 THEN a ELSE Gcd(b, a % b)

\* the number n/d in lowest terms; x/0 is Infinity, -Infinity or NaN
RNorm(n, d) ==
    IF d = 0 THEN [n |-> Sign(n), d |-> 0]
    ELSE LET s == IF d < 0 THEN -1 ELSE 1
             g == Gcd(Abs(n), Abs(d))
         IN  [n |-> (s * n) \div g, d |-> (s * d) \div g]

RInt(m) == [n |-> m, d |-> 1]
RNaN == [n |-> 0, d |-> 0]
RInf == [n |-> 1, d |-> 0]
RNegInf == [n |-> -1, d |-> 0]

RIsFinite(r) == r.d # 0

RAdd(a, b) ==
    IF a.d = 0 /\ b.d = 0
    THEN (IF a.n = b.n THEN a ELSE RNaN)
    ELSE RNorm(a.n * b.d + b.n * a.d, a.d * b.d)

RMul(a, b) == RNorm(a.n * b.n, a.d * b.d)

\* a / b
RDiv(a, b) == RNorm(a.n * b.d, a.d * b.n)

RLt(a, b) ==
    IF a.d = 0 /\ b.d = 0
    THEN a.n # 0 /\ b.n # 0 /\ a.n < b.n
    ELSE IF (a.d = 0 /\ a.n = 0) \/ (b.d = 0 /\ b.n = 0) THEN FALSE
    ELSE a.n * b.d < b.n * a.d

RLe(a, b) == a = b \/ RLt(a, b)

RNeg(a) == [n |-> -a.n, d |-> a.d]

\* Math.round(r * k) / k : nearest multiple of 1/k, ties towards +Infinity
RRound(r, k) ==
    IF r.d = 0 THEN r
    ELSE RNorm((2 * r.n * k + r.d) \div (2 * r.d), k)

\* Math.round(x * 100) / 100 for a dollar amount x held in mills
RoundCents(m) == 10 * ((m + 5) \div 10)

\* Math.round(x * 100) / 100 for a rational dollar amount held in mills
RRoundCents(r) == RMul(RRound(RDiv(r, RInt(1000)), 100), RInt(1000))

RECURSIVE SeqSum(_)
SeqSum(s) == IF s = <<>> THEN 0 ELSE Head(s) + SeqSum(Tail(s))

RECURSIVE RSeqSum(_)
RSeqSum(s) == IF s = <<>> THEN RInt(0) ELSE RAdd(Head(s), RSeqSum(Tail(s)))

Range(s) == {s[i] : i \in DOMAIN s}

SeqMin(s) == CHOOSE x \in Range(s) : \A y \in Range(s) : x <= y
SeqMax(s) == CHOOSE x \in Range(s) : \A y \in Range(s) : x >= y

----------------------------------------------------------------------------
(* Groups supplied by the market-ingestion service (types/hedge.ts) *)

TickerNames == <<"T1", "T2", "T3", "T4">>
RangeLabels == <<"60-61", "62-63", "64-65", "66-67">>

\* BucketInfo: the fields the card reads
Bucket(i, yes) ==
    [ticker |-> TickerNames[i], rangeLabel |-> RangeLabels[i],
     yesPrice |-> yes, noPrice |-> 100 - yes]

\* HedgeGroup over the yes prices ys; sumYesPrices is the sum of the buckets'
\* yes prices and overround = sumYesPrices - 100
MakeGroup(ys) ==
    LET bs == [i \in 1..Len(ys) |-> Bucket(i, ys[i])]
    IN  [groupId |-> "G", numBuckets |-> Len(ys), buckets |-> bs,
         sumYesPrices |-> SeqSum(ys), overround |-> SeqSum(ys) - 100]

Groups ==
    UNION {{MakeGroup(ys) : ys \in {f \in [1..k -> {0} \cup Range(NominalYes)] :
                                      \A i \in 1..k : f[i] \in YesPriceChoices(i)}} :
           k \in 0..MaxBuckets}

GroupTickers(g) == {g.buckets[i].ticker : i \in DOMAIN g.buckets}

----------------------------------------------------------------------------
(* The calculate service: AllocationEngine, ScenarioEngine, QualityScorer  *)

Viable(noPrice) == noPrice > 0 /\ noPrice < 100

\* Allocation record for q contracts of a bucket
SpecAllocation(b, q, incl, feePerContract) ==
    LET cost == q * b.noPrice * 10
        fees == q * feePerContract
    IN  [ticker |-> b.ticker, rangeLabel |-> b.rangeLabel,
         noPrice |-> b.noPrice, yesPrice |-> b.yesPrice,
         contracts |-> q, cost |-> cost, fees |-> fees,
         totalOutlay |-> cost + fees,
         profitIfNoWins |-> q * (100 - b.noPrice) * 10 - fees,
         lossIfYesWins |-> -(cost + fees),
         included |-> incl, viable |-> Viable(b.noPrice)]

\* netPnl of the world where bucket b wins
SpecNetPnl(b, allocs) ==
    SeqSum([i \in DOMAIN allocs |->
              IF ~allocs[i].included THEN 0
              ELSE IF allocs[i].ticker = b.ticker THEN allocs[i].lossIfYesWins
              ELSE allocs[i].profitIfNoWins])

SpecScenario(g, b, allocs) ==
    LET pnl == SpecNetPnl(b, allocs)
    IN  [winningBucket |-> b.ticker, winningLabel |-> b.rangeLabel,
         probability |-> IF g.sumYesPrices <= 0 THEN RInt(0)
                         ELSE RNorm(b.yesPrice, g.sumYesPrices),
         netPnl |-> pnl, isProfitable |-> pnl > 0]

\* good | fair | poor; no position at all is "poor" (insufficient data)
SpecQuality(g, totalContracts, totalCost, totalFees, expectedProfit) ==
    IF totalContracts = 0 THEN "poor"
    ELSE IF 2 * totalFees > totalCost THEN "poor"
    ELSE IF g.overround > 0 /\ RLt(RInt(0), expectedProfit) THEN "good"
    ELSE "fair"

\* HedgeResult computed from scratch for the contract counts qs and the
\* inclusion flags incl (both indexed like g.buckets)
SpecResult(g, bud, feePerContract, qs, incl) ==
    LET allocs == [i \in DOMAIN g.buckets |->
                     SpecAllocation(g.buckets[i], qs[i], incl[i], feePerContract)]
        held == SelectSeq(allocs, LAMBDA a : a.included)
        scen == [i \in DOMAIN g.buckets |-> SpecScenario(g, g.buckets[i], allocs)]
        totalCost == SeqSum([i \in DOMAIN held |-> held[i].cost])
        totalFees == SeqSum([i \in DOMAIN held |-> held[i].fees])
        totalContracts == SeqSum([i \in DOMAIN held |-> held[i].contracts])
        pnls == [i \in DOMAIN scen |-> scen[i].netPnl]
        ev == RSeqSum([i \in DOMAIN scen |->
                         RMul(scen[i].probability, RInt(scen[i].netPnl))])
        quality == SpecQuality(g, totalContracts, totalCost, totalFees, ev)
    IN  [groupId |-> g.groupId, budget |-> bud, feePerContract |-> feePerContract,
         totalCost |-> totalCost, totalFees |-> totalFees,
         totalOutlay |-> totalCost + totalFees,
         expectedProfit |-> ev,
         worstCasePnl |-> IF pnls = <<>> THEN RInt(0) ELSE RInt(SeqMin(pnls)),
         bestCasePnl |-> IF pnls = <<>> THEN RInt(0) ELSE RInt(SeqMax(pnls)),
         winProbability |->
             RSeqSum([i \in DOMAIN scen |->
                        IF scen[i].isProfitable THEN scen[i].probability ELSE RInt(0)]),
         totalContracts |-> totalContracts,
         feeCostRatio |-> IF totalCost > 0 THEN RNorm(totalFees, totalCost) ELSE RInt(0),
         quality |-> quality,
         qualityReason |-> IF quality = "poor" THEN "insufficient edge" ELSE "",
         allocations |-> allocs, scenarios |-> scen]

\* selectedTickers of a request: "all" when omitted (undefined)
AllTickers == [all |-> TRUE, tickers |-> {}]
SomeTickers(S) == [all |-> FALSE, tickers |-> S]

IsIncluded(sel, ticker) == sel.all \/ ticker \in sel.tickers

\* AllocationEngine: the budget is split evenly over the included viable buckets
\* and each share buys whole contracts at noPrice + fee, rounding down
Allocate(g, bud, feePerContract, sel) ==
    LET incl == [i \in DOMAIN g.buckets |-> IsIncluded(sel, g.buckets[i].ticker)]
        active == {i \in DOMAIN g.buckets : incl[i] /\ Viable(g.buckets[i].noPrice)}
        share == IF active = {} \/ bud <= 0 THEN 0 ELSE bud \div Cardinality(active)
    IN  [i \in DOMAIN g.buckets |->
           IF i \in active
           THEN share \div (g.buckets[i].noPrice * 10 + feePerContract)
           ELSE 0]

\* calculate(groupId, budget, feePerContract, selectedTickers?)
Calculate(g, bud, feePerContract, sel) ==
    SpecResult(g, bud, feePerContract, Allocate(g, bud, feePerContract, sel),
               [i \in DOMAIN g.buckets |-> IsIncluded(sel, g.buckets[i].ticker)])

\* ExitAnalyzer: the leg on allocation a closed when its YES probability
\* reaches threshold (a fraction); amounts are rationals in mills.  Losses are
\* negative amounts; improvement is the amount saved by exiting, which the card
\* prints as "+$..." under "Saved vs holding"
ExitEntry(a, allocs, threshold) ==
    LET others == SelectSeq(allocs, LAMBDA o : o.included /\ o.contracts > 0
                                               /\ o.ticker # a.ticker)
        exitValue == RMul(RInt(a.contracts * 10),
                          RAdd(RInt(100), RNeg(RMul(threshold, RInt(100)))))
        lossIfHeld == RInt(a.lossIfYesWins)
        lossIfExit == RAdd(exitValue, RInt(-(a.cost + a.fees)))
        profitFromOthers == RInt(SeqSum([i \in DOMAIN others |->
                                           others[i].profitIfNoWins]))
    IN  [ticker |-> a.ticker, rangeLabel |-> a.rangeLabel,
         contracts |-> a.contracts, entryNoPrice |-> a.noPrice,
         entryCost |-> a.cost, exitTriggerYesProb |-> threshold,
         lossIfHeld |-> lossIfHeld, lossIfExit |-> lossIfExit,
         numOtherBuckets |-> Len(others),
         profitPerOtherBucket |-> IF others = <<>> THEN RInt(0)
                                  ELSE RDiv(profitFromOthers, RInt(Len(others))),
         profitFromOthers |-> profitFromOthers,
         netPnl |-> RAdd(lossIfExit, profitFromOthers),
         improvement |-> RAdd(lossIfExit, RNeg(lossIfHeld))]

\* one entry per included, viable allocation holding contracts
AnalyzeExit(allocs, threshold) ==
    LET legs == SelectSeq(allocs, LAMBDA a : a.included /\ a.viable /\ a.contracts > 0)
    IN  [i \in DOMAIN legs |-> ExitEntry(legs[i], allocs, threshold)]

\* the exit fields of a HedgeResult for the given threshold
WithExit(res, threshold) ==
    res @@ [exitThreshold |-> threshold,
            exitAnalysis |-> AnalyzeExit(res.allocations, threshold)]

\* calculate(groupId, budget, feePerContract, selectedTickers?, exitThreshold)
CalculateExit(g, bud, feePerContract, sel, threshold) ==
    WithExit(Calculate(g, bud, feePerContract, sel), threshold)

----------------------------------------------------------------------------
(* recalcLocal (HedgeGroupCard.tsx) *)

NoOverrides == [t \in {} |-> 0]

\* overrides[a.ticker] ?? a.contracts
OverrideOr(overrides, ticker, dflt) ==
    IF ticker \in DOMAIN overrides THEN overrides[ticker] ELSE dflt


\* variant: the fee of the allocation is not recomputed for the new quantity
LocalAllocation_StaleFees(a, overrides, feePerContract) ==
    LET qty == OverrideOr(overrides, a.ticker, a.contracts)
        costDollars == qty * a.noPrice * 10
        feeDollars == a.fees
    IN  [a EXCEPT !.contracts = qty, !.cost = costDollars, !.fees = feeDollars,
                  !.totalOutlay = costDollars + feeDollars,
                  !.profitIfNoWins = qty * (100 - a.noPrice) * 10 - feeDollars,
                  !.lossIfYesWins = -(costDollars + feeDollars)]

\* the allocation rebuilt for the overridden quantity
LocalAllocation(a, overrides, feePerContract) ==
    LET qty == OverrideOr(overrides, a.ticker, a.contracts)
        costDollars == qty * a.noPrice * 10
        feeDollars == qty * feePerContract
    IN  [a EXCEPT !.contracts = qty, !.cost = costDollars, !.fees = feeDollars,
                  !.totalOutlay = costDollars + feeDollars,
                  !.profitIfNoWins = qty * (100 - a.noPrice) * 10 - feeDollars,
                  !.lossIfYesWins = -(costDollars + feeDollars)]

\* variant: every allocation holding contracts counts, included or not
IncludedAllocs_AnyHeld(allocations) ==
    SelectSeq(allocations, LAMBDA a : a.contracts > 0)

\* allocations.filter(a => a.included && a.contracts > 0)
IncludedAllocs(allocations) ==
    SelectSeq(allocations, LAMBDA a : a.included /\ a.contracts > 0)


\* variant: yes prices are taken as percentages of 100
SumYes_Hundred(g) == 100

\* variant: no guard against a zero sum
SumYes_NoGuard(g) == g.sumYesPrices

\* group.sumYesPrices || 1
SumYes(g) == IF g.sumYesPrices = 0 THEN 1 ELSE g.sumYesPrices


\* variant: the winning bucket's own leg is paid like every other leg
LocalNetPnl_AllProfit(b, included) ==
    SeqSum([i \in DOMAIN included |-> included[i].profitIfNoWins])

\* the loop over `included` accumulating netPnl for winning bucket b
LocalNetPnl(b, included) ==
    SeqSum([i \in DOMAIN included |->
              IF included[i].ticker = b.ticker THEN included[i].lossIfYesWins
              ELSE included[i].profitIfNoWins])

LocalScenario(g, b, included) ==
    LET netPnl == LocalNetPnl(b, included)
    IN  [winningBucket |-> b.ticker, winningLabel |-> b.rangeLabel,
         probability |-> RDiv(RInt(b.yesPrice), RInt(SumYes(g))),
         netPnl |-> RoundCents(netPnl),
         isProfitable |-> netPnl > 0]

\* variant: scenarios are built from the held allocations, not from the buckets
LocalScenarios_Held(g, included) ==
    [i \in DOMAIN included |->
       LocalScenario(g, CHOOSE b \in Range(g.buckets) : b.ticker = included[i].ticker,
                     included)]

\* group.buckets.map(...)
LocalScenarios(g, included) ==
    [i \in DOMAIN g.buckets |-> LocalScenario(g, g.buckets[i], included)]

\* Math.min(...pnls) / Math.max(...pnls): +/-Infinity on the empty list
MathMin(pnls) == IF pnls = <<>> THEN RInf ELSE RInt(SeqMin(pnls))
MathMax(pnls) == IF pnls = <<>> THEN RNegInf ELSE RInt(SeqMax(pnls))

\* variant: the summed probability is kept as a fraction
LocalWinProbability_Fraction(scenarios) ==
    RSeqSum([i \in DOMAIN scenarios |->
               IF scenarios[i].isProfitable THEN scenarios[i].probability ELSE RInt(0)])

\* scenarios.filter(s => s.isProfitable).reduce((s, sc) => s + sc.probability, 0) * 100
LocalWinProbability(scenarios) ==
    RMul(RSeqSum([i \in DOMAIN scenarios |->
                    IF scenarios[i].isProfitable
                    THEN scenarios[i].probability ELSE RInt(0)]),
         RInt(100))

\* variant: the ratio is taken without looking at totalCost
LocalFeeCostRatio_NoGuard(totalFees, totalCost) ==
    RDiv(RInt(totalFees), RInt(totalCost))

\* totalCost > 0 ? totalFees / totalCost : 0
LocalFeeCostRatio(totalFees, totalCost) ==
    IF totalCost > 0 THEN RDiv(RInt(totalFees), RInt(totalCost)) ELSE RInt(0)

RecalcLocal(g, base, overrides, feePerContract) ==
    LET allocations == [i \in DOMAIN base.allocations |->
                          LocalAllocation(base.allocations[i], overrides, feePerContract)]
        included == IncludedAllocs(allocations)
        totalCost == SeqSum([i \in DOMAIN included |-> included[i].cost])
        totalFees == SeqSum([i \in DOMAIN included |-> included[i].fees])
        totalOutlay == totalCost + totalFees
        totalContracts == SeqSum([i \in DOMAIN included |-> included[i].contracts])
        scenarios == LocalScenarios(g, included)
        expectedProfit ==
            RSeqSum([i \in DOMAIN scenarios |->
                       RMul(scenarios[i].probability, RInt(scenarios[i].netPnl))])
        winProbability == LocalWinProbability(scenarios)
        pnls == [i \in DOMAIN scenarios |-> scenarios[i].netPnl]
        worstCasePnl == MathMin(pnls)
        bestCasePnl == MathMax(pnls)
        feeCostRatio == LocalFeeCostRatio(totalFees, totalCost)
    IN  [base EXCEPT
           !.allocations = allocations,
           !.scenarios = scenarios,
           !.totalCost = RoundCents(totalCost),
           !.totalFees = RoundCents(totalFees),
           !.totalOutlay = RoundCents(totalOutlay),
           !.expectedProfit = RRoundCents(expectedProfit),
           !.worstCasePnl = RRoundCents(worstCasePnl),
           !.bestCasePnl = RRoundCents(bestCasePnl),
           !.winProbability = RRound(winProbability, 10),
           !.totalContracts = totalContracts,
           !.feeCostRatio = RRound(feeCostRatio, 100)]

----------------------------------------------------------------------------
(* Text of the quantity input: String(n) and parseInt(text, 10) *)

DigitChars == <<"0", "1", "2", "3", "4", "5", "6", "7", "8", "9">>

IsDigit(c) == \E i \in DOMAIN DigitChars : DigitChars[i] = c
DigitVal(c) == (CHOOSE i \in DOMAIN DigitChars : DigitChars[i] = c) - 1

\* String(n) for an integer n >= 0
RECURSIVE NumToText(_)
NumToText(n) ==
    IF n < 10 THEN <<DigitChars[n + 1]>>
    ELSE Append(NumToText(n \div 10), DigitChars[(n % 10) + 1])

\* String(n) for any integer n
IntToText(n) == IF n < 0 THEN <<"-">> \o NumToText(-n) ELSE NumToText(n)

\* value of the longest prefix of digits of t, continuing from acc
RECURSIVE DigitsPrefix(_, _, _)
DigitsPrefix(t, acc, seen) ==
    IF t = <<>> \/ ~IsDigit(Head(t)) THEN [nan |-> ~seen, val |-> acc]
    ELSE DigitsPrefix(Tail(t), 10 * acc + DigitVal(Head(t)), TRUE)

RECURSIVE SkipSpaces(_)
SkipSpaces(t) == IF t # <<>> /\ Head(t) = " " THEN SkipSpaces(Tail(t)) ELSE t

\* parseInt(text, 10): leading blanks, an optional sign, then digits; NaN when
\* no digit follows
ParseInt(text) ==
    LET t == SkipSpaces(text)
        neg == t # <<>> /\ Head(t) = "-"
        body == IF t # <<>> /\ Head(t) \in {"-", "+"} THEN Tail(t) ELSE t
        r == DigitsPrefix(body, 0, FALSE)
    IN  [nan |-> r.nan, val |-> IF neg THEN -r.val ELSE r.val]

\* the rest of t after its leading digits
RECURSIVE DropDigits(_)
DropDigits(t) == IF t = <<>> \/ ~IsDigit(Head(t)) THEN t ELSE DropDigits(Tail(t))

\* the decimals at the head of t as the fraction num / den
RECURSIVE FractionPrefix(_, _, _, _)
FractionPrefix(t, num, den, seen) ==
    IF t = <<>> \/ ~IsDigit(Head(t)) THEN [seen |-> seen, num |-> num, den |-> den]
    ELSE FractionPrefix(Tail(t), 10 * num + DigitVal(Head(t)), 10 * den, TRUE)

\* parseFloat(text) for texts without exponent: leading blanks, an optional
\* sign, digits, optionally a point and decimals; what follows is ignored; NaN
\* when there is no digit at all
ParseFloat(text) ==
    LET t == SkipSpaces(text)
        neg == t # <<>> /\ Head(t) = "-"
        body == IF t # <<>> /\ Head(t) \in {"-", "+"} THEN Tail(t) ELSE t
        whole == DigitsPrefix(body, 0, FALSE)
        rest == DropDigits(body)
        frac == IF rest # <<>> /\ Head(rest) = "."
                THEN FractionPrefix(Tail(rest), 0, 1, FALSE)
                ELSE [seen |-> FALSE, num |-> 0, den |-> 1]
        val == RAdd(RInt(whole.val), RNorm(frac.num, frac.den))
    IN  [nan |-> whole.nan /\ ~frac.seen, val |-> IF neg THEN RNeg(val) ELSE val]

\* the number of mills of a dollar amount that is a whole number of mills
WholeMills(r) == LET m == RMul(r, RInt(1000)) IN CHOOSE k \in {m.n} : m.d = 1

\* the decimals of k thousandths, without trailing zeros
ThousandthsText(k) ==
    LET d == <<DigitChars[(k \div 100) + 1], DigitChars[((k \div 10) % 10) + 1],
               DigitChars[(k % 10) + 1]>>
    IN  IF k % 100 = 0 THEN SubSeq(d, 1, 1)
        ELSE IF k % 10 = 0 THEN SubSeq(d, 1, 2) ELSE d

\* budget.toString() for a budget of m >= 0 mills
DollarsText(m) ==
    IF m % 1000 = 0 THEN NumToText(m \div 1000)
    ELSE NumToText(m \div 1000) \o <<".">> \o ThousandthsText(m % 1000)

\* (fee * 100).toFixed(1) for a fee of f >= 0 mills
CentsText(f) == NumToText(f \div 10) \o <<".", DigitChars[(f % 10) + 1]>>

----------------------------------------------------------------------------
(* HedgeGroupCard: state, effects and handlers *)

\* texts the user may type into a quantity input
QtyTexts == {<<>>, <<"9">>, <<"-", "1">>, <<"x">>}

\* selected.size === group.buckets.length ? undefined : Array.from(selected)
SelectedArr(g, sel) ==
    IF Cardinality(sel) = Len(g.buckets) THEN AllTickers ELSE SomeTickers(sel)

\* the request the fetch effect issues for the current props and selection
FetchRequest(g, bud, f, sel, threshold) ==
    [budget |-> bud, fee |-> f, selected |-> SelectedArr(g, sel),
     exitThreshold |-> threshold]

\* the calculate response to a request
Response(g, req) ==
    CalculateExit(g, req.budget, req.fee, req.selected, req.exitThreshold)

\* variant: the memo recomputes locally also when nothing is overridden
ResultOf_AlwaysRecalc(g, base, overrides) ==
    IF base = NULL THEN NULL
    ELSE RecalcLocal(g, base, overrides, base.feePerContract)

\* the `result` memo: the base result, or its local recompute under overrides
ResultOf(g, base, overrides) ==
    IF base = NULL THEN NULL
    ELSE IF DOMAIN overrides = {} THEN base
    ELSE RecalcLocal(g, base, overrides, base.feePerContract)

\* bestScenario / worstScenario: result?.scenarios.reduce(...) without an
\* initial value throws a TypeError on an empty array
RenderThrows(res) == res # NULL /\ res.scenarios = <<>>

\* exit threshold the parent starts with: 65% (a fraction)
DefaultExitThreshold == RNorm(65, 100)

\* Math.round(threshold * 100) as text
PercentText(threshold) == IntToText(RRound(RMul(threshold, RInt(100)), 1).n)

\* initial state of the BudgetInput text fields
InitInputs ==
    /\ budgetStr = DollarsText(budget)
    /\ feeStr = CentsText(fee)

\* initial state of the exit controls (useState of lines 100-103)
InitExit ==
    /\ exitThreshold = DefaultExitThreshold
    /\ localExitThreshold = exitThreshold
    /\ exitInputValue = PercentText(exitThreshold)
    /\ exitDebounce = [ref |-> NULL, timers |-> {}]
    /\ exitRequests = {}
    /\ exitLoading = FALSE

Init ==
    /\ group \in Groups
    /\ budget \in Budgets
    /\ fee \in Fees
    /\ InitInputs
    /\ selected = GroupTickers(group)
    /\ baseResult = NULL
    /\ qtyOverrides = NoOverrides
    /\ result = NULL
    /\ editingQtyTicker = NoTicker
    /\ editingQtyValue = <<>>
    /\ crashed = FALSE
    /\ InitExit
    /\ stale = {}
    /\ markets = Unmounted
    \* the fetch effect has run once on mount
    /\ loading = (budget > 0)
    /\ pending = IF budget > 0
                 THEN FetchRequest(group, budget, fee, selected, exitThreshold)
                 ELSE NULL
    /\ chart = [phase |-> "unmounted"]

\* the promise of the live fetch-effect request resolves (null on a failed call)
FetchResponse ==
    /\ ~crashed
    /\ pending # NULL
    /\ \E r \in {NULL, Response(group, pending)} :
         /\ baseResult' = r
         /\ qtyOverrides' = NoOverrides
         /\ loading' = FALSE
         /\ pending' = NULL
         /\ result' = ResultOf(group, r, NoOverrides)
         /\ crashed' = RenderThrows(result')
    /\ UNCHANGED <<group, budget, fee, selected, editingQtyTicker, editingQtyValue, chart, exitVars,
                   inputVars, stale, markets>>

\* variant: the cleanup leaves the flag of the run alone
Cleanup_NotCancelled(req) == [request |-> req, cancelled |-> FALSE]

\* the cleanup of a fetch-effect run (`cancelled = true`), seen from its request
Cleanup(req) == [request |-> req, cancelled |-> TRUE]

\* the in-flight requests of cleaned-up runs once the run of request req is
\* cleaned up too
Superseded(req) == IF req = NULL THEN stale ELSE stale \cup {Cleanup(req)}

\* the promise of a cleaned-up run resolves: `if (!cancelled)` guards the setters
StaleResponse(s) ==
    /\ ~crashed
    /\ s \in stale
    /\ stale' = stale \ {s}
    /\ IF s.cancelled
       THEN UNCHANGED <<baseResult, qtyOverrides, loading, result, crashed>>
       ELSE \E r \in {NULL, Response(group, s.request)} :
              /\ baseResult' = r
              /\ qtyOverrides' = NoOverrides
              /\ loading' = FALSE
              /\ result' = ResultOf(group, r, NoOverrides)
              /\ crashed' = RenderThrows(result')
    /\ UNCHANGED <<group, budget, fee, selected, pending, editingQtyTicker,
                   editingQtyValue, chart, exitVars, inputVars, markets>>

\* variant: a selected bucket is always removed
Toggled_AlwaysDelete(prev, ticker) ==
    IF ticker \in prev THEN prev \ {ticker} ELSE prev \cup {ticker}

\* the updater of toggleBucket: the last selected bucket stays
Toggled(prev, ticker) ==
    IF ticker \in prev
    THEN (IF Cardinality(prev) > 1 THEN prev \ {ticker} ELSE prev)
    ELSE prev \cup {ticker}

\* toggleBucket, followed by the fetch effect that the new `selected` triggers
ToggleBucket(ticker) ==
    /\ ~crashed
    /\ ticker \in GroupTickers(group)
    /\ selected' = Toggled(selected, ticker)
    /\ IF budget <= 0
       THEN UNCHANGED <<loading, pending, stale>>
       ELSE /\ loading' = TRUE
            /\ pending' = FetchRequest(group, budget, fee, selected', exitThreshold)
            /\ stale' = Superseded(pending)
            /\ Cardinality(stale') <= MaxStale
    /\ UNCHANGED <<group, budget, fee, baseResult, qtyOverrides, result,
                   editingQtyTicker, editingQtyValue, crashed, chart, exitVars,
                   inputVars, markets>>

\* handleQtyFocus(ticker, qtyOverrides[ticker] ?? alloc.contracts)
QtyFocus(i) ==
    /\ ~crashed
    /\ result # NULL
    /\ i \in DOMAIN group.buckets
    /\ i \in DOMAIN result.allocations
    /\ editingQtyTicker = NoTicker
    /\ LET ticker == group.buckets[i].ticker
       IN  /\ editingQtyTicker' = ticker
           /\ editingQtyValue' =
                  NumToText(OverrideOr(qtyOverrides, ticker, result.allocations[i].contracts))
    /\ UNCHANGED <<group, budget, fee, selected, baseResult, loading, pending,
                   qtyOverrides, result, crashed, chart, exitVars,
                   inputVars, stale, markets>>

\* handleQtyChange(ticker, value) of the focused input
QtyChange(ticker, value) ==
    /\ ~crashed
    /\ result # NULL
    /\ editingQtyTicker = ticker
    /\ editingQtyValue' = value
    /\ UNCHANGED <<group, budget, fee, selected, baseResult, loading, pending,
                   qtyOverrides, result, editingQtyTicker, crashed, chart, exitVars,
                   inputVars, stale, markets>>


\* variant: a negative number is stored as typed
BlurQty_KeepNegative(text) ==
    LET num == ParseInt(text)
    IN  IF text = <<>> \/ num.nan THEN 0 ELSE num.val

\* the count handleQtyBlur stores for the text being edited
BlurQty(text) ==
    LET num == ParseInt(text)
    IN  IF text = <<>> \/ num.nan \/ num.val < 0 THEN 0 ELSE num.val

\* handleQtyBlur(ticker) (also reached by Enter, which blurs the input)
QtyBlur(ticker) ==
    /\ ~crashed
    /\ result # NULL
    /\ editingQtyTicker = ticker
    /\ ticker \in GroupTickers(group)
    /\ qtyOverrides' =
           [t \in DOMAIN qtyOverrides \cup {ticker} |->
              IF t = ticker THEN BlurQty(editingQtyValue) ELSE qtyOverrides[t]]
    /\ editingQtyTicker' = NoTicker
    /\ result' = ResultOf(group, baseResult, qtyOverrides')
    /\ crashed' = RenderThrows(result')
    /\ UNCHANGED <<group, budget, fee, selected, baseResult, loading, pending,
                   editingQtyValue, chart, exitVars,
                   inputVars, stale, markets>>

\* resetOverrides ("Reset to auto", shown while overrides exist)
ResetOverrides ==
    /\ ~crashed
    /\ result # NULL
    /\ DOMAIN qtyOverrides # {}
    /\ qtyOverrides' = NoOverrides
    /\ result' = ResultOf(group, baseResult, NoOverrides)
    /\ crashed' = RenderThrows(result')
    /\ UNCHANGED <<group, budget, fee, selected, baseResult, loading, pending,
                   editingQtyTicker, editingQtyValue, chart, exitVars,
                   inputVars, stale, markets>>

Next ==
    \/ FetchResponse
    \/ \E t \in GroupTickers(group) : ToggleBucket(t)
    \/ \E i \in DOMAIN group.buckets : QtyFocus(i)
    \/ \E t \in GroupTickers(group), v \in QtyTexts : QtyChange(t, v)
    \/ \E t \in GroupTickers(group) : QtyBlur(t)
    \/ ResetOverrides
    \/ \E s \in stale : StaleResponse(s)

Spec == Init /\ [][Next]_vars

----------------------------------------------------------------------------
(* ReturnDistributionChart.tsx: Monte Carlo simulation and histogram *)

NUM_SIMULATIONS == 2000
BIN_SIZE_PCT == 3

\* values Math.random() may return, a sample of [0, 1)
RandomDraws == {RInt(0), RNorm(99, 100)}

\* Math.floor: Infinity, -Infinity and NaN are returned as they are
RFloor(r) == IF r.d = 0 THEN r ELSE RInt(r.n \div r.d)

\* the keys of binCounts: for (b = -100; b <= 100; b += BIN_SIZE_PCT)
BinKeys == {b \in -100..100 : (b + 100) % BIN_SIZE_PCT = 0}

\* variedProbs of one trial: probability + (random - 0.5) * 2 * 0.4, floored at
\* 0.001 and renormalised; rnd[i] is the random number drawn for scenario i
VariedProbs(scenarios, rnd) ==
    LET raw == [i \in DOMAIN scenarios |->
                  LET noise == RMul(RAdd(rnd[i], RNorm(-1, 2)), RNorm(4, 5))
                      p == RAdd(scenarios[i].probability, noise)
                  IN  IF RLt(p, RNorm(1, 1000)) THEN RNorm(1, 1000) ELSE p]
        total == RSeqSum(raw)
    IN  [i \in DOMAIN scenarios |-> RDiv(raw[i], total)]

\* cumProbs.find(s => rand <= s.cumProb) || cumProbs[cumProbs.length - 1]
WinningIndex(probs, rand) ==
    LET cum == [i \in DOMAIN probs |-> RSeqSum(SubSeq(probs, 1, i))]
        hits == {i \in DOMAIN probs : ~RLt(cum[i], rand)}
    IN  IF hits = {} THEN Len(probs)
        ELSE CHOOSE i \in hits : \A j \in hits : i <= j

\* one entry of runSimulation's results for the winning scenario w:
\* netPnl + (random - 0.5) * |netPnl| * 0.15
TrialPnl(w, offsetRand) ==
    LET randomPnlOffset == RMul(RAdd(offsetRand, RNorm(-1, 2)),
                                RMul(RInt(Abs(w.netPnl)), RNorm(15, 100)))
    IN  RAdd(RInt(w.netPnl), randomPnlOffset)

\* Math.floor(returnPct / BIN_SIZE_PCT) * BIN_SIZE_PCT
BinOf(pnl, totalOutlay) ==
    LET returnPct == RMul(RDiv(pnl, RInt(totalOutlay)), RInt(100))
    IN  RMul(RFloor(RDiv(returnPct, RInt(BIN_SIZE_PCT))), RInt(BIN_SIZE_PCT))

\* if (binCounts[bin] !== undefined) binCounts[bin] += 1
CountTrial(binCounts, bin) ==
    IF bin.d = 1 /\ bin.n \in DOMAIN binCounts
    THEN [binCounts EXCEPT ![bin.n] = @ + 1]
    ELSE binCounts

\* ascending sequence of the elements of a finite set of integers
RECURSIVE SortedSeq(_)
SortedSeq(S) ==
    IF S = {} THEN <<>>
    ELSE LET m == CHOOSE x \in S : \A y \in S : x <= y
         IN  <<m>> \o SortedSeq(S \ {m})

\* Object.entries(binCounts).map(...).sort((a, b) => a.returnBin - b.returnBin)
ChartData(binCounts) ==
    LET key(b) == ParseInt(IntToText(b)).val
        bins == SortedSeq({key(b) : b \in DOMAIN binCounts})
    IN  [k \in DOMAIN bins |->
           [returnBin |-> bins[k],
            frequency |-> binCounts[CHOOSE b \in DOMAIN binCounts : key(b) = bins[k]],
            isPositive |-> bins[k] >= 0]]

\* variant: only an empty scenario list returns early
EmptyInput_ScenariosOnly(scenarios, totalOutlay) == Len(scenarios) = 0

\* !totalOutlay || scenarios.length === 0
EmptyInput(scenarios, totalOutlay) == totalOutlay = 0 \/ Len(scenarios) = 0

\* overrides under which a card may show its distribution chart
ChartOverrides(g) ==
    {NoOverrides, [t \in GroupTickers(g) |-> 0]}

\* a card showing a result, with its distribution chart just mounted
InitChart ==
    /\ group \in {g \in Groups : g.buckets # <<>>}
    /\ budget \in {b \in Budgets : b > 0}
    /\ fee \in Fees
    /\ InitInputs
    /\ selected = GroupTickers(group)
    /\ InitExit
    /\ stale = {}
    /\ markets = Unmounted
    /\ baseResult = CalculateExit(group, budget, fee, AllTickers, exitThreshold)
    /\ qtyOverrides \in ChartOverrides(group)
    /\ result = ResultOf(group, baseResult, qtyOverrides)
    /\ editingQtyTicker = NoTicker
    /\ editingQtyValue = <<>>
    /\ crashed = FALSE
    /\ loading = FALSE
    /\ pending = NULL
    /\ chart = [phase |-> "mounted", scenarios |-> result.scenarios,
                totalOutlay |-> result.totalOutlay]

\* the `data` memo starts: empty input returns [], otherwise the bins are zeroed
MemoStart ==
    /\ chart.phase = "mounted"
    /\ chart' = IF EmptyInput(chart.scenarios, chart.totalOutlay)
                THEN [phase |-> "done", scenarios |-> chart.scenarios,
                      totalOutlay |-> chart.totalOutlay, data |-> <<>>]
                ELSE [phase |-> "simulating", scenarios |-> chart.scenarios,
                      totalOutlay |-> chart.totalOutlay, i |-> 0,
                      binCounts |-> [b \in BinKeys |-> 0]]
    /\ UNCHANGED cardVars

\* one simulated trial and its binning
Trial ==
    /\ chart.phase = "simulating"
    /\ chart.i < NUM_SIMULATIONS
    /\ \E rnd \in [DOMAIN chart.scenarios -> RandomDraws], rand \in RandomDraws :
         LET w == WinningIndex(VariedProbs(chart.scenarios, rnd), rand)
         IN  \E offsetRand \in RandomDraws :
               LET pnl == TrialPnl(chart.scenarios[w], offsetRand)
               IN  chart' = [chart EXCEPT
                               !.i = @ + 1,
                               !.binCounts = CountTrial(@, BinOf(pnl, chart.totalOutlay))]
    /\ UNCHANGED cardVars

\* all trials binned: the memo returns the sorted chart data
MemoFinish ==
    /\ chart.phase = "simulating"
    /\ chart.i = NUM_SIMULATIONS
    /\ chart' = [phase |-> "done", scenarios |-> chart.scenarios,
                 totalOutlay |-> chart.totalOutlay,
                 data |-> ChartData(chart.binCounts)]
    /\ UNCHANGED cardVars

NextChart == MemoStart \/ Trial \/ MemoFinish

SpecChart == InitChart /\ [][NextChart]_vars

----------------------------------------------------------------------------
(* Two computations of the chart's `data` memo over equal props: the memo is  *)
(* computed again whenever the card hands it a new `scenarios` array, also    *)
(* one with the same contents.  chart.first observes the first entry of the   *)
(* current run's simPnls and chart.prev what the previous run produced.       *)

\* the results one iteration of runSimulation can push
TrialResults(scenarios) ==
    {TrialPnl(scenarios[WinningIndex(VariedProbs(scenarios, rnd), rand)], offsetRand) :
        rnd \in [DOMAIN scenarios -> RandomDraws],
        rand \in RandomDraws, offsetRand \in RandomDraws}

\* a card of a one-bucket market showing its result, the chart just mounted
InitRerun ==
    /\ group = MakeGroup(SubSeq(NominalYes, 1, 1))
    /\ budget \in {b \in Budgets : b > 0}
    /\ fee \in Fees
    /\ InitInputs
    /\ selected = GroupTickers(group)
    /\ InitExit
    /\ stale = {}
    /\ markets = Unmounted
    /\ baseResult = CalculateExit(group, budget, fee, AllTickers, exitThreshold)
    /\ qtyOverrides = NoOverrides
    /\ result = ResultOf(group, baseResult, qtyOverrides)
    /\ editingQtyTicker = NoTicker
    /\ editingQtyValue = <<>>
    /\ crashed = FALSE
    /\ loading = FALSE
    /\ pending = NULL
    /\ chart = [phase |-> "mounted", scenarios |-> result.scenarios,
                totalOutlay |-> result.totalOutlay, run |-> 1, simTrigger |-> 0,
                prev |-> NULL]

\* the memo starts (lines 50-64)
RunStart ==
    /\ chart.phase = "mounted"
    /\ chart' = IF EmptyInput(chart.scenarios, chart.totalOutlay)
                THEN [phase |-> "done", scenarios |-> chart.scenarios,
                      totalOutlay |-> chart.totalOutlay, run |-> chart.run,
                      simTrigger |-> chart.simTrigger,
                      prev |-> chart.prev, first |-> NULL, data |-> <<>>]
                ELSE [phase |-> "simulating", scenarios |-> chart.scenarios,
                      totalOutlay |-> chart.totalOutlay, run |-> chart.run,
                      simTrigger |-> chart.simTrigger,
                      prev |-> chart.prev, first |-> NULL, i |-> 0,
                      binCounts |-> [b \in BinKeys |-> 0]]
    /\ UNCHANGED cardVars

\* one simulated trial and its binning
RunTrial ==
    /\ chart.phase = "simulating"
    /\ chart.i < NUM_SIMULATIONS
    /\ \E pnl \in TrialResults(chart.scenarios) :
         chart' = [chart EXCEPT
                     !.i = @ + 1,
                     !.first = IF chart.i = 0 THEN pnl ELSE @,
                     !.binCounts = CountTrial(@, BinOf(pnl, chart.totalOutlay))]
    /\ UNCHANGED cardVars

\* all trials binned: the memo returns the sorted chart data
RunFinish ==
    /\ chart.phase = "simulating"
    /\ chart.i = NUM_SIMULATIONS
    /\ chart' = [phase |-> "done", scenarios |-> chart.scenarios,
                 totalOutlay |-> chart.totalOutlay, run |-> chart.run,
                      simTrigger |-> chart.simTrigger,
                 prev |-> chart.prev, first |-> chart.first,
                 data |-> ChartData(chart.binCounts)]
    /\ UNCHANGED cardVars

\* the card re-renders with a new `scenarios` array of the same contents: the
\* memo is computed again
Recompute ==
    /\ chart.phase = "done"
    /\ chart.run = 1
    /\ chart' = [phase |-> "mounted", scenarios |-> chart.scenarios,
                 totalOutlay |-> chart.totalOutlay, run |-> 2,
                 simTrigger |-> chart.simTrigger,
                 prev |-> [first |-> chart.first, data |-> chart.data]]
    /\ UNCHANGED cardVars

\* clicks on "Rerun Simulation" followed in one run
MaxClicks == 1

\* onClick of "Rerun Simulation": setSimTrigger(prev => prev + 1); the button is
\* rendered with the chart, that is when data is not empty; the memo depends on
\* [scenarios, totalOutlay] only
RerunClick ==
    /\ chart.phase = "done"
    /\ chart.data # <<>>
    /\ chart.simTrigger < MaxClicks
    /\ chart' = [chart EXCEPT !.simTrigger = @ + 1]
    /\ UNCHANGED cardVars

NextRerun == RunStart \/ RunTrial \/ RunFinish \/ Recompute \/ RerunClick

SpecRerun == InitRerun /\ [][NextRerun]_vars

----------------------------------------------------------------------------
(* The card on a market whose legs nearly cancel: NextRecalc is Next without  *)
(* the selection toggle, with other contract counts typed                      *)

\* yes prices (cents) of the buckets of such a market
ThinYes == <<2, 99>>

\* contract counts typed into the quantity inputs
ThinQtyTexts == {<<"5">>, <<"2">>, <<"2", ".", "5">>, <<"-", "2">>, <<"x">>, <<>>}

\* the card showing the result the service returned for the market
InitRecalc ==
    /\ group = MakeGroup(ThinYes)
    /\ budget \in {b \in Budgets : b > 0}
    /\ fee \in Fees
    /\ InitInputs
    /\ selected = GroupTickers(group)
    /\ InitExit
    /\ stale = {}
    /\ markets = Unmounted
    /\ baseResult = CalculateExit(group, budget, fee, AllTickers, exitThreshold)
    /\ qtyOverrides = NoOverrides
    /\ result = ResultOf(group, baseResult, qtyOverrides)
    /\ editingQtyTicker = NoTicker
    /\ editingQtyValue = <<>>
    /\ crashed = FALSE
    /\ loading = FALSE
    /\ pending = NULL
    /\ chart = [phase |-> "unmounted"]

NextRecalc ==
    \/ \E i \in DOMAIN group.buckets : QtyFocus(i)
    \/ \E t \in GroupTickers(group), v \in ThinQtyTexts : QtyChange(t, v)
    \/ \E t \in GroupTickers(group) : QtyBlur(t)
    \/ ResetOverrides

SpecRecalc == InitRecalc /\ [][NextRecalc]_vars

----------------------------------------------------------------------------
(* The exit-threshold controls of the card: text input, slider, debounce   *)

\* texts typed into the exit input, and values the slider may be dragged to
ExitTexts == {<<>>, <<"0">>, <<"1">>, <<"0", ".", "5">>, <<"1", "5", "0">>, <<"-", "5">>}
SliderValues == {RInt(0), RInt(1)}

\* Math.max(lo, Math.min(hi, x)) for a number x
Clamp(lo, hi, x) ==
    LET m == IF RLt(hi, x) THEN hi ELSE x
    IN  IF RLt(m, lo) THEN lo ELSE m


\* variant: the value is committed as it comes
ClampExit_PassThrough(value) == value

\* variant: the bounds of the slider are used, 0 and 1 included
ClampExit_ZeroToOne(value) == Clamp(RInt(0), RInt(1), value)

\* Math.max(0.01, Math.min(0.99, value))
ClampExit(value) == Clamp(RNorm(1, 100), RNorm(99, 100), value)

\* the parent's onExitThresholdChange: the value becomes the exitThreshold prop
OnExitThresholdChange(value) == value

\* commitExitThreshold(value), called by a handler that leaves the slider state
\* at local and the text at input; when the prop changes, the sync effect
\* overwrites both
CommitExitThresholdIn(render, value, local, input) ==
    LET clamped == ClampExit(value)
        prop == OnExitThresholdChange(clamped)
    IN  /\ exitThreshold' = prop
        /\ localExitThreshold' = IF prop # exitThreshold THEN prop ELSE local
        /\ exitInputValue' = IF prop # exitThreshold THEN PercentText(prop) ELSE input
        /\ IF render.budget <= 0
           THEN UNCHANGED <<exitLoading, exitRequests>>
           ELSE /\ exitLoading' = TRUE
                /\ exitRequests' = exitRequests \cup
                       {FetchRequest(group, render.budget, render.fee,
                                     render.selected, clamped)}

\* the budget, fee and selection that the callbacks of the current render
\* close over
Render == [budget |-> budget, fee |-> fee, selected |-> selected]

\* commitExitThreshold(value) called from a handler of the current render
CommitExitThreshold(value, local, input) ==
    CommitExitThresholdIn(Render, value, local, input)

\* variant: a scheduled commit is never cancelled
ClearTimeout_Noop(debounce) == debounce

\* if (exitDebounceRef.current) clearTimeout(exitDebounceRef.current)
ClearTimeout(debounce) == [debounce EXCEPT !.timers = @ \ {debounce.ref}]

\* exitDebounceRef.current = setTimeout(() => commitExitThreshold(value), 300):
\* the timer keeps the value and the commitExitThreshold of the render
SetTimeout(debounce, value) ==
    LET timer == [value |-> value, render |-> Render]
    IN  [ref |-> timer, timers |-> debounce.timers \cup {timer}]

\* onChange of the exit text input
ExitInputChange(text) ==
    /\ ~crashed
    /\ result # NULL /\ result.exitAnalysis # <<>>
    /\ exitInputValue' = text
    /\ UNCHANGED <<group, budget, fee, selected, baseResult, loading, pending,
                   qtyOverrides, result, editingQtyTicker, editingQtyValue, crashed,
                   chart, exitThreshold, localExitThreshold, exitDebounce,
                   exitRequests, exitLoading,
                   inputVars, stale, markets>>

\* handleExitInputBlur (also reached by Enter)
ExitInputBlur ==
    /\ ~crashed
    /\ result # NULL /\ result.exitAnalysis # <<>>
    /\ LET num == ParseFloat(exitInputValue)
       IN  IF ~num.nan
           THEN LET pct == IF RLt(RInt(0), num.val) /\ RLe(num.val, RInt(1))
                           THEN RMul(num.val, RInt(100)) ELSE num.val
                    rounded == RRound(pct, 1)
                    clamped == Clamp(RInt(0), RInt(100), rounded)
                    fraction == RDiv(clamped, RInt(100))
                IN  CommitExitThreshold(fraction, fraction, IntToText(clamped.n))
           ELSE /\ exitInputValue' = PercentText(localExitThreshold)
                /\ UNCHANGED <<exitThreshold, localExitThreshold, exitRequests,
                               exitLoading>>
    /\ UNCHANGED <<group, budget, fee, selected, baseResult, loading, pending,
                   qtyOverrides, result, editingQtyTicker, editingQtyValue, crashed,
                   chart, exitDebounce,
                   inputVars, stale, markets>>

\* handleSliderInput(value): local update, the commit is (re)scheduled
SliderInput(value) ==
    /\ ~crashed
    /\ result # NULL /\ result.exitAnalysis # <<>>
    /\ localExitThreshold' = value
    /\ exitInputValue' = PercentText(value)
    /\ exitDebounce' = SetTimeout(ClearTimeout(exitDebounce), value)
    /\ UNCHANGED <<group, budget, fee, selected, baseResult, loading, pending,
                   qtyOverrides, result, editingQtyTicker, editingQtyValue, crashed,
                   chart, exitThreshold, exitRequests, exitLoading,
                   inputVars, stale, markets>>

\* a debounce timer fires: commitExitThreshold(value) as scheduled
DebounceFire ==
    /\ ~crashed
    /\ \E timer \in exitDebounce.timers :
         /\ CommitExitThresholdIn(timer.render, timer.value, localExitThreshold,
                                  exitInputValue)
         /\ exitDebounce' = [exitDebounce EXCEPT !.timers = @ \ {timer}]
    /\ UNCHANGED <<group, budget, fee, selected, baseResult, loading, pending,
                   qtyOverrides, result, editingQtyTicker, editingQtyValue, crashed,
                   chart,
                   inputVars, stale, markets>>

\* handleSliderCommit (mouse / touch release)
SliderCommit ==
    /\ ~crashed
    /\ result # NULL /\ result.exitAnalysis # <<>>
    /\ exitDebounce' = ClearTimeout(exitDebounce)
    /\ CommitExitThreshold(localExitThreshold, localExitThreshold, exitInputValue)
    /\ UNCHANGED <<group, budget, fee, selected, baseResult, loading, pending,
                   qtyOverrides, result, editingQtyTicker, editingQtyValue, crashed,
                   chart,
                   inputVars, stale, markets>>

\* a request of commitExitThreshold resolves (null on a failed call)
ExitResponse(req) ==
    /\ ~crashed
    /\ req \in exitRequests
    /\ exitRequests' = exitRequests \ {req}
    /\ exitLoading' = FALSE
    /\ \E r \in {NULL, Response(group, req)} :
         /\ baseResult' = IF r # NULL THEN r ELSE baseResult
         /\ result' = ResultOf(group, baseResult', qtyOverrides)
         /\ crashed' = RenderThrows(result')
    /\ UNCHANGED <<group, budget, fee, selected, loading, pending, qtyOverrides,
                   editingQtyTicker, editingQtyValue, chart, exitThreshold,
                   localExitThreshold, exitInputValue, exitDebounce,
                   inputVars, stale, markets>>

\* the card of a two-bucket market showing the result of its first request
InitExitCard ==
    /\ group = MakeGroup(SubSeq(NominalYes, 1, 2))
    /\ budget \in {b \in Budgets : b > 0}
    /\ fee \in Fees
    /\ InitInputs
    /\ selected = GroupTickers(group)
    /\ InitExit
    /\ stale = {}
    /\ markets = Unmounted
    /\ baseResult = CalculateExit(group, budget, fee, AllTickers, exitThreshold)
    /\ qtyOverrides = NoOverrides
    /\ result = ResultOf(group, baseResult, qtyOverrides)
    /\ editingQtyTicker = NoTicker
    /\ editingQtyValue = <<>>
    /\ crashed = FALSE
    /\ loading = FALSE
    /\ pending = NULL
    /\ chart = [phase |-> "unmounted"]

NextExit ==
    \/ \E text \in ExitTexts : ExitInputChange(text)
    \/ ExitInputBlur
    \/ \E value \in SliderValues : SliderInput(value)
    \/ DebounceFire
    \/ SliderCommit
    \/ \E req \in exitRequests : ExitResponse(req)

SpecExit == InitExitCard /\ [][NextExit]_vars

----------------------------------------------------------------------------
(* The card with everything that replaces baseResult at work: the fetch       *)
(* effect after a selection change and the commits of the exit threshold      *)

\* commits of the exit threshold in flight at the same time
MaxCommits == 1

\* the slider is dragged to its lower end only
RaceSliderValues == {RInt(0)}

NextRace ==
    \/ \E t \in GroupTickers(group) : ToggleBucket(t)
    \/ FetchResponse
    \/ \E s \in stale : StaleResponse(s)
    \/ \E value \in RaceSliderValues : SliderInput(value)
    \/ Cardinality(exitRequests) < MaxCommits /\ DebounceFire
    \/ Cardinality(exitRequests) < MaxCommits /\ SliderCommit
    \/ \E req \in exitRequests : ExitResponse(req)

SpecRace == InitExitCard /\ [][NextRace]_vars

----------------------------------------------------------------------------
(* The card with quantity overrides in place while baseResult is replaced    *)

NextKeep ==
    \/ \E i \in DOMAIN group.buckets : QtyFocus(i)
    \/ \E t \in GroupTickers(group) : QtyBlur(t)
    \/ ResetOverrides
    \/ \E value \in RaceSliderValues : SliderInput(value)
    \/ Cardinality(exitRequests) < MaxCommits /\ DebounceFire
    \/ Cardinality(exitRequests) < MaxCommits /\ SliderCommit
    \/ \E req \in exitRequests : ExitResponse(req)

SpecKeep == InitExitCard /\ [][NextKeep]_vars

----------------------------------------------------------------------------
(* BudgetInput and the dashboard state it edits; the card's fetch effect     *)
(* follows every change of budget or fee                                       *)

\* texts typed into the budget field (dollars) and the fee field (cents)
BudgetTexts == {<<>>, <<"0">>, <<"-", "3">>, <<"2", ".", "5">>, <<"5", "x">>}
FeeTexts == {<<>>, <<"-", "1">>, <<"0">>, <<"x">>}


\* variant: a budget of zero is accepted
BudgetValid_ZeroAllowed(num) == ~num.nan /\ RLe(RInt(0), num.val)

\* !isNaN(val) && val > 0
BudgetValid(num) == ~num.nan /\ RLt(RInt(0), num.val)

\* !isNaN(val) && val >= 0
FeeValid(num) == ~num.nan /\ RLe(RInt(0), num.val)

\* the card's fetch effect after the props changed to bud and f: the request
\* of the previous run is cancelled, a new one is issued unless bud <= 0
FetchEffect(bud, f) ==
    IF bud = budget /\ f = fee THEN UNCHANGED <<loading, pending, stale>>
    ELSE IF bud <= 0
    THEN /\ pending' = NULL
         /\ stale' = Superseded(pending)
         /\ Cardinality(stale') <= MaxStale
         /\ UNCHANGED loading
    ELSE /\ loading' = TRUE
         /\ pending' = FetchRequest(group, bud, f, selected, exitThreshold)
         /\ stale' = Superseded(pending)
         /\ Cardinality(stale') <= MaxStale

\* onChange of the budget field
BudgetChange(text) ==
    /\ ~crashed
    /\ budgetStr' = text
    /\ UNCHANGED <<group, budget, fee, selected, baseResult, loading, pending,
                   qtyOverrides, result, editingQtyTicker, editingQtyValue, crashed,
                   chart, exitVars, feeStr, stale, markets>>

\* handleBudgetBlur (also reached by Enter), with the effect that rewrites the
\* text when budget changes
BudgetBlur ==
    /\ ~crashed
    /\ LET num == ParseFloat(budgetStr)
       IN  IF BudgetValid(num)
           THEN /\ budget' = WholeMills(num.val)
                /\ budgetStr' = IF budget' # budget THEN DollarsText(budget')
                                ELSE budgetStr
           ELSE /\ budgetStr' = DollarsText(budget)
                /\ UNCHANGED budget
    /\ FetchEffect(budget', fee)
    /\ UNCHANGED <<group, fee, selected, baseResult, qtyOverrides, result,
                   editingQtyTicker, editingQtyValue, crashed, chart, exitVars, feeStr, markets>>

\* onChange of the fee field
FeeChange(text) ==
    /\ ~crashed
    /\ feeStr' = text
    /\ UNCHANGED <<group, budget, fee, selected, baseResult, loading, pending,
                   qtyOverrides, result, editingQtyTicker, editingQtyValue, crashed,
                   chart, exitVars, budgetStr, stale, markets>>

\* handleFeeBlur (also reached by Enter)
FeeBlur ==
    /\ ~crashed
    /\ LET num == ParseFloat(feeStr)
       IN  IF FeeValid(num)
           THEN /\ fee' = WholeMills(RDiv(num.val, RInt(100)))
                /\ UNCHANGED feeStr
           ELSE /\ feeStr' = CentsText(fee)
                /\ UNCHANGED fee
    /\ FetchEffect(budget, fee')
    /\ UNCHANGED <<group, budget, selected, baseResult, qtyOverrides, result,
                   editingQtyTicker, editingQtyValue, crashed, chart, exitVars,
                   budgetStr, markets>>

\* the dashboard with the card of a two-bucket market just mounted
InitDash ==
    /\ group = MakeGroup(SubSeq(NominalYes, 1, 2))
    /\ budget \in {b \in Budgets : b > 0}
    /\ fee \in Fees
    /\ InitInputs
    /\ selected = GroupTickers(group)
    /\ baseResult = NULL
    /\ qtyOverrides = NoOverrides
    /\ result = NULL
    /\ editingQtyTicker = NoTicker
    /\ editingQtyValue = <<>>
    /\ crashed = FALSE
    /\ InitExit
    /\ stale = {}
    /\ markets = Unmounted
    /\ loading = TRUE
    /\ pending = FetchRequest(group, budget, fee, selected, exitThreshold)
    /\ chart = [phase |-> "unmounted"]

NextDash ==
    \/ \E text \in BudgetTexts : BudgetChange(text)
    \/ BudgetBlur
    \/ \E text \in FeeTexts : FeeChange(text)
    \/ FeeBlur
    \/ FetchResponse
    \/ \E s \in stale : StaleResponse(s)

SpecDash == InitDash /\ [][NextDash]_vars

----------------------------------------------------------------------------
(* useMarkets: the market list with its pausable auto-refresh.  markets.timers *)
(* are the interval timers that exist, markets.ref is intervalRef.current,     *)
(* markets.inflight counts the fetches not yet settled and markets.recent      *)
(* keeps what issued the latest fetches.                                       *)

\* fetches in flight at the same time, and fetches remembered in `recent`
MaxInflight == 2
MaxRecent == 2

\* intervalRef.current = null; interval ids are positive
NoTimer == 0

\* an interval id not in use
NewTimer(timers) == CHOOSE id \in 1..(Cardinality(timers) + 1) : id \notin timers

\* the last MaxRecent entries of a log
Latest(log) ==
    IF Len(log) <= MaxRecent THEN log
    ELSE SubSeq(log, Len(log) - MaxRecent + 1, Len(log))

\* fetchMarkets() up to its await: setLoading(true); setError(null); fetch(...)
FetchMarkets(m, by) ==
    [m EXCEPT !.loading = TRUE, !.error = FALSE, !.inflight = @ + 1,
              !.recent = Latest(Append(@, by))]

\* variant: the interval is left running
ClearIntervalRef_Noop(m) == m

\* if (intervalRef.current) { clearInterval(intervalRef.current); intervalRef.current = null; }
ClearIntervalRef(m) ==
    IF m.ref = NoTimer THEN m
    ELSE [m EXCEPT !.timers = @ \ {m.ref}, !.ref = NoTimer]

\* the interval effect after `paused` changed: the cleanup of the previous run
\* (returned only when that run was not paused), then the body
IntervalEffect(m, wasPaused) ==
    LET cleaned == IF wasPaused THEN m ELSE ClearIntervalRef(m)
    IN  IF cleaned.paused THEN ClearIntervalRef(cleaned)
        ELSE LET id == NewTimer(cleaned.timers)
             IN  [cleaned EXCEPT !.timers = @ \cup {id}, !.ref = id]

\* the hook after its first render and effects: the initial fetch is under way
\* and the interval effect has run with paused = true
InitMarkets ==
    /\ group = MakeGroup(<<>>)
    /\ budget = 0
    /\ fee \in Fees
    /\ InitInputs
    /\ selected = {}
    /\ baseResult = NULL
    /\ qtyOverrides = NoOverrides
    /\ result = NULL
    /\ editingQtyTicker = NoTicker
    /\ editingQtyValue = <<>>
    /\ crashed = FALSE
    /\ InitExit
    /\ stale = {}
    /\ loading = FALSE
    /\ pending = NULL
    /\ chart = [phase |-> "unmounted"]
    /\ markets = IntervalEffect(
                     FetchMarkets([mounted |-> TRUE, paused |-> TRUE, timers |-> {},
                                   ref |-> NoTimer, loading |-> TRUE, error |-> FALSE,
                                   loaded |-> FALSE, inflight |-> 0, recent |-> <<>>],
                                  "initial"),
                     TRUE)

\* refresh: fetchMarkets called by the refresh button
Refresh ==
    /\ markets.inflight < MaxInflight
    /\ markets' = FetchMarkets(markets, "manual")
    /\ UNCHANGED hedgeVars

\* togglePause, followed by the interval effect that the new `paused` triggers
TogglePause ==
    /\ markets.paused => markets.inflight < MaxInflight
    /\ LET fetched == IF markets.paused THEN FetchMarkets(markets, "resume")
                      ELSE markets
           toggled == [fetched EXCEPT !.paused = ~@]
       IN  markets' = IntervalEffect(toggled, markets.paused)
    /\ UNCHANGED hedgeVars

\* an interval timer fires: fetchMarkets
Tick(id) ==
    /\ id \in markets.timers
    /\ markets.inflight < MaxInflight
    /\ markets' = FetchMarkets(markets, "periodic")
    /\ UNCHANGED hedgeVars

\* a fetch settles: markets and meta are stored, or the error is; then
\* setLoading(false)
FetchSettles(ok) ==
    /\ markets.inflight > 0
    /\ markets' = [markets EXCEPT !.inflight = @ - 1, !.loading = FALSE,
                                  !.loaded = IF ok THEN TRUE ELSE @,
                                  !.error = IF ok THEN @ ELSE TRUE]
    /\ UNCHANGED hedgeVars

NextMarkets ==
    \/ Refresh
    \/ TogglePause
    \/ \E id \in markets.timers : Tick(id)
    \/ \E ok \in BOOLEAN : FetchSettles(ok)

SpecMarkets == InitMarkets /\ [][NextMarkets]_vars

----------------------------------------------------------------------------
(* Properties of the displayed result *)

\* the displayed result is an output of recalcLocal
Recalculated == result # NULL /\ DOMAIN qtyOverrides # {}

AllocOutlaySum(res) ==
    SeqSum([i \in DOMAIN res.allocations |-> res.allocations[i].totalOutlay])

\* C1: budget conservation -- in every displayed result (the base result and every
\* local recompute after quantity overrides) the allocations' totalOutlay sums to
\* at most the budget, given that the base result does
C1_BudgetConservation ==
    (result # NULL /\ AllocOutlaySum(baseResult) <= baseResult.budget)
        => AllocOutlaySum(result) <= result.budget

\* C2: recalcLocal returns exactly one scenario per bucket of the group, in bucket
\* order, with winningBucket the bucket's ticker, whatever is selected or overridden
C2_ScenarioPerBucket ==
    Recalculated =>
        /\ Len(result.scenarios) = Len(group.buckets)
        /\ \A i \in DOMAIN group.buckets :
             result.scenarios[i].winningBucket = group.buckets[i].ticker

\* a local recompute of a group of two or more buckets, one of them not selected
\* and one holding overridden contracts
C2_Witness ==
    /\ Recalculated
    /\ Len(group.buckets) >= 2
    /\ \E i \in DOMAIN result.allocations : ~result.allocations[i].included
    /\ \E i \in DOMAIN result.allocations :
         result.allocations[i].included /\ result.allocations[i].contracts > 0

\* sum over the included allocations: the loss of the leg on b, the profit of the others
IncludedPnlSum(res, b) ==
    SeqSum([i \in DOMAIN res.allocations |->
              IF ~res.allocations[i].included THEN 0
              ELSE IF res.allocations[i].ticker = b.ticker
                   THEN res.allocations[i].lossIfYesWins
                   ELSE res.allocations[i].profitIfNoWins])

ProbabilitySum(res) ==
    RSeqSum([i \in DOMAIN res.scenarios |-> res.scenarios[i].probability])

\* C4: the scenario probabilities of a local recompute sum to 1 whenever
\* group.sumYesPrices > 0
C4_ProbabilitiesSumToOne ==
    (Recalculated /\ group.sumYesPrices > 0) => ProbabilitySum(result) = RInt(1)

\* a local recompute for two buckets of different positive yes prices
C4_Witness ==
    /\ Recalculated
    /\ group.sumYesPrices > 0
    /\ \E i, j \in DOMAIN group.buckets :
         /\ group.buckets[i].yesPrice > 0
         /\ group.buckets[j].yesPrice > group.buckets[i].yesPrice

C6_EmptyGroupRenders ==
    group.buckets = <<>> =>
        /\ ~crashed
        /\ result # NULL =>
             RIsFinite(result.worstCasePnl) /\ RIsFinite(result.bestCasePnl)

\* C9: every allocation of a local recompute follows the allocation formulas for
\* its contract count q (amounts in mills): cost = q*noPrice/100, fees =
\* q*feePerContract, totalOutlay = cost + fees, profitIfNoWins =
\* q*(100-noPrice)/100 - fees, lossIfYesWins = -(cost + fees); hence
\* totalOutlay >= 0 and lossIfYesWins = -totalOutlay
C9_AllocationFormulas ==
    Recalculated =>
        \A i \in DOMAIN result.allocations :
            LET a == result.allocations[i]
                q == IF a.ticker \in DOMAIN qtyOverrides
                     THEN qtyOverrides[a.ticker]
                     ELSE baseResult.allocations[i].contracts
            IN  /\ a.contracts = q
                /\ 100 * a.cost = q * a.noPrice * 1000
                /\ a.fees = q * baseResult.feePerContract
                /\ a.totalOutlay = a.cost + a.fees
                /\ 100 * (a.profitIfNoWins + a.fees) = q * (100 - a.noPrice) * 1000
                /\ a.lossIfYesWins + a.cost + a.fees = 0
                /\ a.totalOutlay >= 0
                /\ a.lossIfYesWins = -a.totalOutlay

\* a local recompute in which an override changed a bucket's contract count
C9_Witness ==
    /\ Recalculated
    /\ \E i \in DOMAIN result.allocations :
         /\ result.allocations[i].contracts > 0
         /\ result.allocations[i].contracts # baseResult.allocations[i].contracts

\* C10: a local recompute equals the result computed from scratch for the same
\* contract counts (allocations, scenarios and summary fields)
C10_LocalEqualsFromScratch ==
    Recalculated =>
        result = WithExit(SpecResult(group, baseResult.budget, baseResult.feePerContract,
                                     [i \in DOMAIN result.allocations |->
                                        result.allocations[i].contracts],
                                     [i \in DOMAIN result.allocations |->
                                        result.allocations[i].included]),
                          baseResult.exitThreshold)

----------------------------------------------------------------------------
(* Properties of the histogram *)

FrequencySum(data) == SeqSum([k \in DOMAIN data |-> data[k].frequency])

\* C7: for non-empty scenarios and a positive totalOutlay the frequencies of the
\* histogram sum exactly to NUM_SIMULATIONS (no trial is dropped)
C7_HistogramMass ==
    (chart.phase = "done" /\ chart.scenarios # <<>> /\ chart.totalOutlay > 0)
        => FrequencySum(chart.data) = NUM_SIMULATIONS

----------------------------------------------------------------------------
(* Scenario flags *)

\* C11: in every displayed result each scenario's isProfitable is true exactly
\* when the scenario's reported netPnl is strictly greater than 0
C11_ProfitableIffPositive ==
    result # NULL =>
        \A i \in DOMAIN result.scenarios :
            result.scenarios[i].isProfitable <=> (result.scenarios[i].netPnl > 0)


----------------------------------------------------------------------------
(* Exit analysis and exit threshold *)

InsideUnit(x) == RLt(RInt(0), x) /\ RLt(x, RInt(1))

\* C15: every exit threshold the card commits -- the value handed to
\* onExitThresholdChange and the one sent in a calculate request -- lies strictly
\* inside (0,1), and committing never throws
C15_ExitThresholdClamped ==
    /\ ~crashed
    /\ InsideUnit(exitThreshold)
    /\ \A req \in exitRequests : InsideUnit(req.exitThreshold)
    /\ pending # NULL => InsideUnit(pending.exitThreshold)
    /\ baseResult # NULL => InsideUnit(baseResult.exitThreshold)

\* a text above 100% was blurred: the text and the slider show 100% while the
\* threshold committed and requested is 0.99
C15_Witness ==
    /\ exitInputValue = <<"1", "0", "0">>
    /\ localExitThreshold = RInt(1)
    /\ exitThreshold = RNorm(99, 100)
    /\ \E req \in exitRequests : req.exitThreshold = RNorm(99, 100)


----------------------------------------------------------------------------
(* Quantities *)

\* C13: after any sequence of quantity edits every value stored in qtyOverrides
\* is a non-negative integer, and so is every allocation.contracts of the
\* displayed result
C13_CountsAreNaturals ==
    /\ \A t \in DOMAIN qtyOverrides : qtyOverrides[t] \in Nat
    /\ result # NULL =>
         \A i \in DOMAIN result.allocations : result.allocations[i].contracts \in Nat

\* overrides stored from a negative and from a fractional text: -2 became 0 and
\* 2.5 became 2
C13_Witness ==
    /\ result # NULL
    /\ \E t, u \in DOMAIN qtyOverrides :
         /\ qtyOverrides[t] = 0 /\ qtyOverrides[u] = 2
         /\ \E i, j \in DOMAIN result.allocations :
              /\ result.allocations[i].ticker = t /\ result.allocations[i].contracts = 0
              /\ result.allocations[j].ticker = u /\ result.allocations[j].contracts = 2


\* C14: in every displayed result an allocation whose bucket is not included or
\* not viable holds no contracts, also after quantity edits
C14_ExcludedHoldNothing ==
    result # NULL =>
        \A i \in DOMAIN result.allocations :
            (~result.allocations[i].included \/ ~result.allocations[i].viable)
                => result.allocations[i].contracts = 0


----------------------------------------------------------------------------
(* Budget and fee inputs *)

\* the text is no number, or a number outside the domain of the field
InvalidBudgetText(text) ==
    LET num == ParseFloat(text) IN num.nan \/ RLe(num.val, RInt(0))
InvalidFeeText(text) ==
    LET num == ParseFloat(text) IN num.nan \/ RLt(num.val, RInt(0))

\* C16: starting from budget > 0 and fee >= 0, budget stays > 0 and fee stays
\* >= 0 and no calculate request is outstanding with budget <= 0; a blur (or
\* Enter) on an invalid entry leaves budget / fee unchanged and puts the text of
\* the current value back into the field
C16_BudgetFeeValidated ==
    /\ [](/\ budget > 0 /\ fee >= 0
          /\ pending # NULL => pending.budget > 0)
    /\ [][/\ (BudgetBlur /\ InvalidBudgetText(budgetStr))
               => (budget' = budget /\ budgetStr' = DollarsText(budget))
          /\ (FeeBlur /\ InvalidFeeText(feeStr))
               => (fee' = fee /\ feeStr' = CentsText(fee))]_vars

\* an invalid budget text was reverted while a valid change has taken effect: the
\* budget is the 2.5 dollars typed earlier, the field shows it again, and the
\* request outstanding is for it
C16_Witness ==
    /\ budget = 2500
    /\ budgetStr = <<"2", ".", "5">>
    /\ fee = 0
    /\ feeStr = <<"0">>
    /\ pending # NULL /\ pending.budget = 2500 /\ pending.fee = 0


----------------------------------------------------------------------------
(* Reproducibility of the simulation *)

\* C17: the simulator takes its randomness from a source the caller provides, so
\* a second run over the same scenarios, totalOutlay, trial count and bin size
\* reproduces the first: the same simulated results and the same histogram
C17_RunsReproducible ==
    (chart.phase = "done" /\ chart.run = 2) =>
        /\ chart.first = chart.prev.first
        /\ chart.data = chart.prev.data


----------------------------------------------------------------------------
(* Boundary results *)

\* every allocation of the displayed result holds no contract
NothingHeld ==
    \A i \in DOMAIN result.allocations : result.allocations[i].contracts = 0

\* C18: with budget 0 the displayed result holds no contract, and a displayed
\* result in which every contract count is 0 has totalOutlay 0,
\* expectedProfit 0 and quality "poor"
C18_NothingHeldIsPoor ==
    result # NULL =>
        /\ budget = 0 => NothingHeld
        /\ NothingHeld =>
             /\ result.totalOutlay = 0
             /\ result.expectedProfit = RInt(0)
             /\ result.quality = "poor"


----------------------------------------------------------------------------
(* Summary figures of a local recompute *)

\* the summed probability of the scenarios marked profitable
ProfitableProbability(res) ==
    RSeqSum([i \in DOMAIN res.scenarios |->
               IF res.scenarios[i].isProfitable
               THEN res.scenarios[i].probability ELSE RInt(0)])

HeldCost(res) ==
    SeqSum([i \in DOMAIN res.allocations |->
              IF res.allocations[i].included /\ res.allocations[i].contracts > 0
              THEN res.allocations[i].cost ELSE 0])
HeldFees(res) ==
    SeqSum([i \in DOMAIN res.allocations |->
              IF res.allocations[i].included /\ res.allocations[i].contracts > 0
              THEN res.allocations[i].fees ELSE 0])

----------------------------------------------------------------------------
(* Nothing held *)

\* no allocation of the result is included with a positive contract count
NoneIncludedHeld(res) ==
    \A i \in DOMAIN res.allocations :
        ~(res.allocations[i].included /\ res.allocations[i].contracts > 0)

\* C21: when no allocation of a local recompute is included with a positive
\* contract count, every scenario's netPnl is 0 and so are totalCost,
\* totalFees, totalOutlay and expectedProfit
C21_NothingHeldAllZero ==
    (Recalculated /\ NoneIncludedHeld(result)) =>
        /\ \A i \in DOMAIN result.scenarios : result.scenarios[i].netPnl = 0
        /\ result.totalCost = 0
        /\ result.totalFees = 0
        /\ result.totalOutlay = 0
        /\ result.expectedProfit = RInt(0)

\* a local recompute in which the only contracts sit in a bucket that is not
\* included, the included buckets being overridden to 0
C21_Witness ==
    /\ Recalculated
    /\ NoneIncludedHeld(result)
    /\ Len(result.scenarios) >= 2
    /\ \E i \in DOMAIN result.allocations : result.allocations[i].contracts > 0
    /\ \E i \in DOMAIN result.allocations :
         /\ result.allocations[i].included
         /\ baseResult.allocations[i].contracts > 0


----------------------------------------------------------------------------
(* Replacement of the base result *)

\* C22: whenever baseResult is replaced by a calculate response, whether the
\* request came from the fetch effect or from a commit of the exit threshold,
\* qtyOverrides is reset to empty and the displayed result is the new base
C22_BaseChangeResetsOverrides ==
    [][baseResult' # baseResult =>
          (qtyOverrides' = NoOverrides /\ result' = baseResult')]_vars


----------------------------------------------------------------------------
(* Debounce of the exit slider *)

\* C23: at most one debounced commit is ever pending; a slider input leaves
\* exactly the commit of its own value pending and issues no request; a release
\* cancels the pending commit and issues one calculate request carrying the
\* clamped slider value, after which no debounced commit can fire
C23_SliderDebounce ==
    /\ [](Cardinality(exitDebounce.timers) <= 1)
    /\ [][/\ \A value \in SliderValues :
               SliderInput(value) =>
                   /\ exitDebounce'.timers = {[value |-> value, render |-> Render]}
                   /\ exitRequests' = exitRequests
          /\ SliderCommit =>
               /\ exitDebounce'.timers = {}
               /\ exitRequests' = exitRequests \cup
                      {FetchRequest(group, budget, fee, selected,
                                    ClampExit(localExitThreshold))}
               /\ exitThreshold' = ClampExit(localExitThreshold)]_vars

\* after a burst of slider inputs ending at the upper end and a release: nothing
\* is scheduled any more and the one request in flight carries 0.99
C23_Witness ==
    /\ exitDebounce.ref # NULL
    /\ exitDebounce.ref.value = RInt(1)
    /\ exitDebounce.timers = {}
    /\ localExitThreshold = RNorm(99, 100)
    /\ exitRequests = {FetchRequest(group, budget, fee, selected, RNorm(99, 100))}


----------------------------------------------------------------------------
(* Auto-refresh of the market list *)

\* C24: useMarkets starts paused; at most one interval timer exists, and one
\* exists exactly when paused is false; a periodic fetch is issued only while
\* not paused; togglePause from paused issues one immediate fetch and starts
\* the timer, togglePause from running stops it and issues nothing
C24_AutoRefresh ==
    /\ markets.paused
    /\ [](/\ Cardinality(markets.timers) <= 1
          /\ (markets.timers # {}) <=> ~markets.paused
          /\ markets.timers = IF markets.ref = NoTimer THEN {} ELSE {markets.ref})
    /\ [][/\ (\E id \in markets.timers : Tick(id)) => ~markets.paused
          /\ (markets.paused /\ markets'.inflight > markets.inflight) =>
                 markets'.recent[Len(markets'.recent)] # "periodic"
          /\ (TogglePause /\ markets.paused) =>
                 /\ ~markets'.paused
                 /\ markets'.inflight = markets.inflight + 1
                 /\ markets'.recent = Latest(Append(markets.recent, "resume"))
                 /\ Cardinality(markets'.timers) = 1
          /\ (TogglePause /\ ~markets.paused) =>
                 /\ markets'.paused
                 /\ markets'.inflight = markets.inflight
                 /\ markets'.recent = markets.recent
                 /\ markets'.timers = {}]_vars

\* paused again after a run in which the timer fired
C24_Witness ==
    /\ markets.paused
    /\ markets.timers = {}
    /\ markets.recent = <<"resume", "periodic">>


----------------------------------------------------------------------------
(* The "Rerun Simulation" button *)

\* C25: each click on "Rerun Simulation" runs the Monte Carlo simulation again:
\* the memo that holds the histogram is computed anew although scenarios and
\* totalOutlay are unchanged
C25_ClickRerunsSimulation ==
    [][RerunClick => chart'.phase = "mounted"]_vars


----------------------------------------------------------------------------
(* Responses of the fetch effect *)

\* the request the fetch effect issues for the card as it stands
CurrentRequest == FetchRequest(group, budget, fee, selected, exitThreshold)

\* C26: the response of a fetch-effect run that has been cleaned up changes
\* neither baseResult nor the overrides nor loading, whatever the order of
\* arrival; hence once the live run's response is in, a base result is the one
\* for the card's current selection, not one of a superseded request
C26_StaleResponsesDiscarded ==
    /\ []((pending = NULL /\ baseResult # NULL) =>
              baseResult = Response(group, CurrentRequest))
    /\ [][\A s \in stale :
              StaleResponse(s) =>
                  /\ baseResult' = baseResult
                  /\ qtyOverrides' = qtyOverrides
                  /\ loading' = loading
                  /\ result' = result]_vars

\* the response of the newer run is in and overridden by hand while the
\* request of a superseded run, for another selection, is still in flight
C26_Witness ==
    /\ pending = NULL
    /\ baseResult # NULL
    /\ qtyOverrides # NoOverrides
    /\ \E s \in stale : s.request.selected # SelectedArr(group, selected)


\* no calculate request is in flight and no debounced commit is scheduled
Quiescent ==
    /\ pending = NULL
    /\ stale = {}
    /\ exitRequests = {}
    /\ exitDebounce.timers = {}

\* C27: once no calculate request is in flight and no debounce timer is
\* pending, a non-null baseResult is the result for the card's current budget,
\* fee, selection and committed exit threshold
C27_SettledBaseIsCurrent ==
    (Quiescent /\ baseResult # NULL) => baseResult = Response(group, CurrentRequest)


----------------------------------------------------------------------------
(* Displayed and committed exit threshold *)

\* C28: when a text edit of the exit threshold ends (blur) and no debounced
\* commit is scheduled, the slider position and the text show the committed
\* exitThreshold, also when the value entered was clamped on commit
C28_DisplayedIsCommitted ==
    [][(ExitInputBlur /\ exitDebounce.timers = {}) =>
          /\ localExitThreshold' = exitThreshold'
          /\ exitInputValue' = PercentText(exitThreshold')]_vars


----------------------------------------------------------------------------
(* The selection *)

\* the calculate requests in flight, whoever issued them
RequestsInFlight ==
    (IF pending = NULL THEN {} ELSE {pending})
        \cup {s.request : s \in stale} \cup exitRequests

\* C29: for a group with at least one bucket the selection, which starts with
\* all buckets, never becomes empty under toggleBucket, and no calculate
\* request carries an empty selection
C29_SelectionNeverEmpty ==
    Len(group.buckets) >= 1 =>
        /\ selected # {}
        /\ selected \subseteq GroupTickers(group)
        /\ \A req \in RequestsInFlight :
               req.selected.all \/ req.selected.tickers # {}

\* the only selected bucket of a two-bucket group was toggled: the selection is
\* as before and its request was issued again
C29_Witness ==
    /\ Len(group.buckets) = 2
    /\ Cardinality(selected) = 1
    /\ pending # NULL
    /\ pending.selected = SomeTickers(selected)
    /\ \E s \in stale : s.request = pending


----------------------------------------------------------------------------
(* Overrides and back *)

\* C30: recalcLocal leaves baseResult and the group as they are, so "Reset to
\* auto" after any overrides displays exactly the base result; and recalcLocal
\* applied to its own output with the same overrides returns that output
C30_OverrideRoundTrip ==
    /\ [](Recalculated =>
              RecalcLocal(group, result, qtyOverrides, result.feePerContract) = result)
    /\ [][/\ (\E t \in GroupTickers(group) : QtyBlur(t)) =>
                 (baseResult' = baseResult /\ group' = group)
          /\ ResetOverrides =>
                 /\ baseResult' = baseResult
                 /\ group' = group
                 /\ result' = baseResult]_vars

\* a local recompute under two overrides, one raising a count to 9 and one
\* emptying a bucket, whose result differs from the base
C30_Witness ==
    /\ Recalculated
    /\ result # baseResult
    /\ \E t, u \in DOMAIN qtyOverrides : qtyOverrides[t] = 9 /\ qtyOverrides[u] = 0

====
